---- MODULE Spec2Model ----
(***************************************************************************)
(* Model of bulk_extractor's image access layer (src/image_process.cpp):   *)
(* the segment table of a split raw image (process_raw::add_file, open,    *)
(* find_offset), the positional read over it (process_raw::pread), the     *)
(* container-format adapter (process_ewf) and the cursor / page producer   *)
(* shared by the byte-addressed backends (begin, end, increment_iterator,  *)
(* seek_block, fraction_done, sbuf_alloc).                                 *)
(***************************************************************************)
EXTENDS Integers, Sequences, FiniteSets, TLC

(***************************************************************************)
(* Bounds of the model.                                                    *)
(***************************************************************************)
\* largest size of one file of the modelled file system
MaxFileLen == 2
\* largest number of segments of an opened image in the read runs
MaxSegments == 2
\* largest length of one segment in the read runs
MaxSegLen == 2
\* largest number and length of the segments of an image in the cursor runs
MaxCursorSegments == 2
MaxCursorSegLen == 1
\* largest byte count asked of pread
MaxBytes == 4
\* how far past the end of the image an offset given to pread or find_offset goes
MaxExtra == 1
\* largest page size and margin given to the factory
MaxPage == 2
MaxMargin == 1
\* largest media size reported by the container decoder
MaxEwfSize == 4
\* largest block number given to seek_block
MaxBlock == 3
\* largest number of files the directory backend enumerates
MaxDirFiles == 2

(***************************************************************************)
(* Paths are sequences of characters.  The file system seen by             *)
(* process_raw::open holds, for every name a split image can have, the     *)
(* size of the file or NoFile.                                             *)
(***************************************************************************)
\* largest sibling number that can exist in the modelled file system
MaxNum == 3
NoFile == -1
DigitChars == <<"0", "1", "2", "3", "4", "5", "6", "7", "8", "9">>
DigitVal(c) == CHOOSE d \in 0..9 : DigitChars[d + 1] = c
\* printf's %03d
Format03d(n) ==
    <<DigitChars[((n \div 100) % 10) + 1], DigitChars[((n \div 10) % 10) + 1],
      DigitChars[(n % 10) + 1]>>
\* atoi of a run of digits
RECURSIVE atoi(_)
atoi(digits) ==
    IF digits = <<>> THEN 0
    ELSE 10 * atoi(SubSeq(digits, 1, Len(digits) - 1)) + DigitVal(digits[Len(digits)])
Stem == <<"i", ".">>
NumberedName(n) == Stem \o Format03d(n)
RawName == Stem \o <<"r", "a", "w">>
PrimaryNames == {NumberedName(0), NumberedName(1), RawName}
AllNames == {NumberedName(n) : n \in 0..MaxNum} \cup {RawName}
\* a split image whose name has digits before the suffix: the primary file
\* 000.001, its sibling 000.002, and 001.001, 002.001 next to them
DigitStem == <<"0", "0", "0", ".">>
DigitStemPrimary == DigitStem \o Format03d(1)
DigitStemNames ==
    {DigitStemPrimary, DigitStem \o Format03d(2),
     Format03d(1) \o <<".">> \o Format03d(1),
     Format03d(2) \o <<".">> \o Format03d(1)}

VARIABLES
    pc,            \* "new" | "probing" | "opened": progress of open()
    image_fname,   \* image_process::image_fname_
    fs,            \* the file system: name -> size or NoFile
    num,           \* process_raw::open's probe counter
    backend,       \* "raw" | "ewf" | "dir": the class the factory constructed
    ewf_api,       \* "handle" | "legacy": the libewf API the build uses
    pagesize,      \* image_process::pagesize
    margin,        \* image_process::margin
    file_list,     \* process_raw::file_list, a sequence of file_info
    raw_filesize,  \* process_raw::raw_filesize
    ewf_filesize,  \* process_ewf::ewf_filesize
    files,         \* process_dir::files
    it,            \* the cursors (image_process::iterator) in use
    ret,           \* what the last call returned or threw
    world,         \* what image_process::open is called with and finds
    calls,         \* the pread calls in progress, one per thread
    out,           \* the pages the reading loop has produced so far
    hashdb         \* scan_hashdb: its configuration, the page and the block loop

\* the surroundings of an image; its own operations leave them alone
fsvars == <<image_fname, fs, world, calls, out, hashdb>>
cfgvars == <<backend, ewf_api, pagesize, margin>>
imgvars == <<file_list, raw_filesize, ewf_filesize, files>>
vars == <<pc, image_fname, fs, num, backend, ewf_api, pagesize, margin,
          file_list, raw_filesize, ewf_filesize, files, it, ret,
          world, calls, out, hashdb>>

Min(a, b) == IF a < b THEN a ELSE b

(***************************************************************************)
(* image_process::iterator as its constructor leaves it.                   *)
(***************************************************************************)
iterator_new == [raw_offset |-> 0, file_number |-> 0, eof |-> FALSE]

NoRet == [op |-> "none"]
NoWorld == [kind |-> "none"]
NoCalls == <<>>
NoScanner == [mode |-> "unset"]

(***************************************************************************)
(* Split-file naming.                                                      *)
(***************************************************************************)
fn_ends_with(path, suffix) ==
    IF Len(suffix) > Len(path) THEN FALSE
    ELSE SubSeq(path, Len(path) - Len(suffix) + 1, Len(path)) = suffix

is_multipart_file(fn) ==
    \/ fn_ends_with(fn, <<".", "0", "0", "0">>)
    \/ fn_ends_with(fn, <<".", "0", "0", "1">>)
    \/ fn_ends_with(fn, <<"0", "0", "1", ".", "v", "m", "d", "k">>)

\* std::string::rfind: the last position (from 1) where pat starts, 0 for npos
rfind(path, pat) ==
    LET hits == {p \in 1..(Len(path) - Len(pat) + 1) :
                    SubSeq(path, p, p + Len(pat) - 1) = pat}
    IN IF hits = {} THEN 0 ELSE CHOOSE p \in hits : \A q \in hits : q <= p

\* make_list_template: where the digits are, the first probe number, and the
\* text before and after the %03d that replaces the digits
make_list_template(path) ==
    LET p0 == rfind(path, <<"0", "0", "0">>)
        p == IF p0 = 0 THEN rfind(path, <<"0", "0", "1">>) ELSE p0
    IN [start |-> atoi(SubSeq(path, p, p + 2)) + 1,
        pre |-> SubSeq(path, 1, p - 1),
        post |-> SubSeq(path, p + 3, Len(path))]

\* snprintf(probename, sizeof(probename), templ.c_str(), num)
probename(templ, n) == templ.pre \o Format03d(n) \o templ.post

exists(path) == path \in DOMAIN fs /\ fs[path] # NoFile

(***************************************************************************)
(* process_raw::file_info and add_file.  A file_info carries the stream    *)
(* opened on the file: its read position and its rdstate bits.             *)
(***************************************************************************)
file_info(path, offset, length) ==
    [path |-> path, offset |-> offset, length |-> length,
     pos |-> 0, rdstate |-> {}]

add_file_total_bug(total, path_filesize) == total

add_file_total(total, path_filesize) == total + path_filesize

add_file(fl, total, path, path_filesize) ==
    [file_list |-> Append(fl, file_info(path, total, path_filesize)),
     raw_filesize |-> add_file_total(total, path_filesize)]

(***************************************************************************)
(* process_raw::open, one action per add_file call and one for the probe   *)
(* that misses.                                                            *)
(***************************************************************************)
open_first ==
    /\ pc = "new"
    /\ LET r == add_file(file_list, raw_filesize, image_fname, fs[image_fname])
       IN /\ file_list' = r.file_list
          /\ raw_filesize' = r.raw_filesize
    /\ IF is_multipart_file(image_fname)
       THEN /\ pc' = "probing"
            /\ num' = make_list_template(image_fname).start
       ELSE /\ pc' = "opened"
            /\ num' = num
    /\ ret' = [op |-> "add_file"]
    /\ UNCHANGED <<fsvars, cfgvars, ewf_filesize, files, it>>

open_probe_hit ==
    /\ pc = "probing"
    /\ LET probe_path == probename(make_list_template(image_fname), num)
       IN /\ exists(probe_path)
          /\ LET r == add_file(file_list, raw_filesize, probe_path, fs[probe_path])
             IN /\ file_list' = r.file_list
                /\ raw_filesize' = r.raw_filesize
    /\ num' = num + 1
    /\ ret' = [op |-> "add_file"]
    /\ UNCHANGED <<pc, fsvars, cfgvars, ewf_filesize, files, it>>

open_probe_miss ==
    /\ pc = "probing"
    /\ ~exists(probename(make_list_template(image_fname), num))
    /\ pc' = "opened"
    /\ ret' = [op |-> "open", result |-> 0]
    /\ UNCHANGED <<num, fsvars, cfgvars, imgvars, it>>

FileSystems ==
    [AllNames -> (0..MaxFileLen) \cup {NoFile}]
        \cup [DigitStemNames -> (0..MaxFileLen) \cup {NoFile}]

InitOpen ==
    /\ pc = "new"
    /\ fs \in FileSystems
    /\ image_fname \in PrimaryNames \cup {DigitStemPrimary}
    /\ exists(image_fname)
    /\ num = 0
    /\ backend = "raw"
    /\ ewf_api = "handle"
    /\ pagesize = 1
    /\ margin = 0
    /\ file_list = <<>>
    /\ raw_filesize = 0
    /\ ewf_filesize = 0
    /\ files = <<>>
    /\ it = <<>>
    /\ ret = NoRet
    /\ world = NoWorld
    /\ calls = NoCalls
    /\ out = <<>>
    /\ hashdb = NoScanner

NextOpen == open_first \/ open_probe_hit \/ open_probe_miss

SpecOpen == InitOpen /\ [][NextOpen]_vars

(***************************************************************************)
(* process_raw::image_size                                                 *)
(***************************************************************************)
raw_image_size == raw_filesize

RECURSIVE SumLengths(_)
SumLengths(fl) ==
    IF fl = <<>> THEN 0 ELSE fl[1].length + SumLengths(Tail(fl))

\* C3: after every add_file call of open() and after open(), the segment
\* table is ordered by start offset (strictly where the earlier segment is
\* not empty), the first segment starts at 0, every segment starts where the
\* previous one ends, and image_size() is the sum of the segment lengths.
C3_TableContiguous ==
    pc # "new" =>
        /\ Len(file_list) >= 1
        /\ file_list[1].offset = 0
        /\ \A i \in 1..(Len(file_list) - 1) :
              /\ file_list[i + 1].offset = file_list[i].offset + file_list[i].length
              /\ file_list[i].offset <= file_list[i + 1].offset
              /\ file_list[i].length > 0 => file_list[i].offset < file_list[i + 1].offset
        /\ raw_image_size = SumLengths(file_list)

C3_Witness ==
    /\ pc = "opened"
    /\ Len(file_list) = 3
    /\ file_list[1].length > 0
    /\ file_list[2].length > 0
    /\ file_list[3].offset = file_list[1].length + file_list[2].length

\* the name that differs from path only in its three-digit suffix
SuffixName(path, n) == SubSeq(path, 1, Len(path) - 3) \o Format03d(n)
SuffixValue(path) == atoi(SubSeq(path, Len(path) - 2, Len(path)))
SplitSuffix(path) ==
    \/ fn_ends_with(path, <<".", "0", "0", "0">>)
    \/ fn_ends_with(path, <<".", "0", "0", "1">>)

\* C11: after open() of a primary file whose name ends in .000 or .001 the
\* segment table holds the primary file followed by exactly the consecutively
\* numbered siblings (the same name with the next suffix numbers) up to the
\* first number that does not exist, and image_size() is the sum of the sizes
\* of those files.
C11_SiblingsProbed ==
    (pc = "opened" /\ SplitSuffix(image_fname)) =>
        LET b == SuffixValue(image_fname)
            k == Len(file_list)
        IN /\ k >= 1
           /\ \A j \in 1..k : file_list[j].path = SuffixName(image_fname, b + j - 1)
           /\ ~exists(SuffixName(image_fname, b + k))
           /\ raw_image_size = SumLengths(file_list)
           /\ \A j \in 1..k : file_list[j].length = fs[file_list[j].path]

(***************************************************************************)
(* The images process_raw::open can leave behind: the table add_file       *)
(* builds from a primary file and its consecutively numbered siblings.     *)
(***************************************************************************)
RECURSIVE AddFiles(_, _, _)
AddFiles(r, sizes, k) ==
    IF k > Len(sizes) THEN r
    ELSE AddFiles(add_file(r.file_list, r.raw_filesize, NumberedName(k - 1), sizes[k]),
                  sizes, k + 1)

\* the file system that holds a primary file and siblings of these sizes
FsOf(sizes) ==
    [n \in AllNames |->
        IF \E k \in 1..Len(sizes) : n = NumberedName(k - 1)
        THEN sizes[CHOOSE k \in 1..Len(sizes) : n = NumberedName(k - 1)]
        ELSE NoFile]

OpenedImagesOf(nsegs, seglen) ==
    {[fs |-> FsOf(sizes),
      img |-> AddFiles([file_list |-> <<>>, raw_filesize |-> 0], sizes, 1)] :
        sizes \in UNION {[1..k -> 0..seglen] : k \in 1..nsegs}}

OpenedImages == OpenedImagesOf(MaxSegments, MaxSegLen)

CursorImages == OpenedImagesOf(MaxCursorSegments, MaxCursorSegLen)

(***************************************************************************)
(* process_raw::find_offset: the first file_info whose range holds pos,    *)
(* as an index into file_list, 0 for the null pointer.                     *)
(***************************************************************************)
in_segment_bug(fi, pos) == fi.offset <= pos /\ pos <= fi.offset + fi.length

in_segment(fi, pos) == fi.offset <= pos /\ pos < fi.offset + fi.length

find_offset(fl, pos) ==
    LET hits == {i \in 1..Len(fl) : in_segment(fl[i], pos)}
    IN IF hits = {} THEN 0 ELSE CHOOSE i \in hits : \A j \in hits : i <= j

(***************************************************************************)
(* The std::ifstream of a file_info.  A file holds the bytes               *)
(* <<path, 0>>, <<path, 1>>, ... up to its length.  A fault is what the    *)
(* operating system does to one stream operation of a call: the segment    *)
(* whose stream is hit, the operation, and the rdstate bits it raises.     *)
(***************************************************************************)
NoFault == [seg |-> 0, op |-> "none", bits |-> {}]

Faults(nsegs) ==
    {NoFault}
    \cup {[seg |-> k, op |-> "seek", bits |-> {"failbit"}] : k \in 1..nsegs}
    \cup {[seg |-> k, op |-> "read", bits |-> b] :
             k \in 1..nsegs, b \in {{"failbit"}, {"badbit"}, {"eofbit", "failbit"}}}

FileByte(path, j) == <<path, j>>

\* istream::seekg: clears eofbit, does nothing but raise failbit on a stream
\* that has failed, else moves the read position
seekg(fi, file_offset, faulty) ==
    LET cleared == fi.rdstate \ {"eofbit"}
    IN IF cleared # {} \/ faulty
       THEN [fi EXCEPT !.rdstate = cleared \cup {"failbit"}]
       ELSE [fi EXCEPT !.rdstate = cleared, !.pos = file_offset]

\* istream::read of n bytes at the read position: the bytes up to the end of
\* the file; eofbit and failbit when the file ends before n bytes
stream_read(fi, n, bits) ==
    LET got == IF bits # {} THEN 0 ELSE Min(n, fi.length - fi.pos)
        short == IF got < n THEN {"eofbit", "failbit"} ELSE {}
    IN [fi |-> [fi EXCEPT !.pos = fi.pos + got,
                          !.rdstate = fi.rdstate \cup bits \cup short],
        data |-> [k \in 1..got |-> FileByte(fi.path, fi.pos + k - 1)]]

(***************************************************************************)
(* process_raw::pread.  The result is the count returned, the bytes put    *)
(* into buf, the file_list with its streams as the call leaves them, and   *)
(* the exception thrown, "none" when the call returns.                     *)
(***************************************************************************)
bytes_to_read_bug(bytes, available_bytes) == bytes

bytes_to_read(bytes, available_bytes) ==
    IF bytes > available_bytes THEN available_bytes ELSE bytes

rdstate_and_bug(rdstate, mask) == FALSE

\* fi->stream.rdstate() & mask
rdstate_and(rdstate, mask) == rdstate \cap mask # {}

\* the arguments of the recursive call
recurse_bytes(bytes, bytes_read) == bytes - bytes_read

recurse_offset_bug(offset, bytes_read) == offset

recurse_offset(offset, bytes_read) == offset + bytes_read

RECURSIVE pread(_, _, _, _)
pread(fl, bytes, offset, fault) ==
    LET i == find_offset(fl, offset)
    IN IF i = 0 THEN [n |-> 0, buf |-> <<>>, fl |-> fl, exc |-> "none"]
       ELSE
       LET fi == fl[i]
           file_offset == offset - fi.offset
           available_bytes == fi.length - file_offset
           to_read == bytes_to_read(bytes, available_bytes)
           sought == seekg(fi, file_offset, fault.seg = i /\ fault.op = "seek")
           rd == stream_read(sought, to_read,
                             IF fault.seg = i /\ fault.op = "read" THEN fault.bits ELSE {})
           fl1 == [fl EXCEPT ![i] = rd.fi]
           thrown(f, data, e) == [n |-> 0, buf |-> data, fl |-> f, exc |-> e]
       IN IF rdstate_and(sought.rdstate, {"failbit", "badbit"})
          THEN thrown([fl EXCEPT ![i] = sought], <<>>, "SeekError")
          ELSE IF rdstate_and(rd.fi.rdstate, {"failbit"}) THEN thrown(fl1, rd.data, "ReadError")
          ELSE IF rdstate_and(rd.fi.rdstate, {"badbit"}) THEN thrown(fl1, rd.data, "ReadError")
          ELSE IF rdstate_and(rd.fi.rdstate, {"eofbit"}) THEN thrown(fl1, rd.data, "EndOfImage")
          ELSE LET bytes_read == to_read
               IN IF bytes_read = bytes
                  THEN [n |-> bytes_read, buf |-> rd.data, fl |-> fl1, exc |-> "none"]
                  ELSE IF bytes_read = 0
                  THEN [n |-> 0, buf |-> rd.data, fl |-> fl1, exc |-> "none"]
                  ELSE LET r2 == pread(fl1, recurse_bytes(bytes, bytes_read),
                                        recurse_offset(offset, bytes_read), fault)
                       IN IF r2.exc # "none"
                          THEN thrown(r2.fl, rd.data \o r2.buf, r2.exc)
                          ELSE IF r2.n < 0
                          THEN [n |-> -1, buf |-> rd.data \o r2.buf, fl |-> r2.fl,
                                exc |-> "none"]
                          ELSE [n |-> bytes_read + r2.n, buf |-> rd.data \o r2.buf,
                                fl |-> r2.fl, exc |-> "none"]

StreamsGood(fl) == \A i \in 1..Len(fl) : fl[i].rdstate = {}

(***************************************************************************)
(* Calls of find_offset and pread on an opened segmented-raw image.        *)
(***************************************************************************)
call_find_offset(pos) ==
    /\ pc = "opened"
    /\ backend = "raw"
    /\ ret' = [op |-> "find_offset", pos |-> pos, found |-> find_offset(file_list, pos)]
    /\ UNCHANGED <<pc, num, fsvars, cfgvars, imgvars, it>>

call_pread(bytes, offset, fault) ==
    /\ pc = "opened"
    /\ backend = "raw"
    /\ LET r == pread(file_list, bytes, offset, fault)
       IN /\ file_list' = r.fl
          /\ ret' = [op |-> "pread", bytes |-> bytes, offset |-> offset,
                     fault |-> fault, good |-> StreamsGood(file_list),
                     n |-> r.n, buf |-> r.buf, exc |-> r.exc]
    /\ UNCHANGED <<pc, num, fsvars, cfgvars, raw_filesize, ewf_filesize, files, it>>

InitRead ==
    /\ pc = "opened"
    /\ image_fname = NumberedName(0)
    /\ num = 0
    /\ backend = "raw"
    /\ ewf_api = "handle"
    /\ pagesize = 1
    /\ margin = 0
    /\ \E o \in OpenedImages :
          /\ fs = o.fs
          /\ file_list = o.img.file_list
          /\ raw_filesize = o.img.raw_filesize
    /\ ewf_filesize = 0
    /\ files = <<>>
    /\ it = <<>>
    /\ ret = NoRet
    /\ world = NoWorld
    /\ calls = NoCalls
    /\ out = <<>>
    /\ hashdb = NoScanner

NextRead ==
    \/ \E pos \in 0..(raw_filesize + MaxExtra) : call_find_offset(pos)
    \/ \E bytes \in 0..MaxBytes, offset \in 0..(raw_filesize + MaxExtra),
          fault \in {NoFault} : call_pread(bytes, offset, fault)

SpecRead == InitRead /\ [][NextRead]_vars

(***************************************************************************)
(* The logical image: the bytes of the segments one after the other.       *)
(***************************************************************************)
RECURSIVE ImageBytes(_)
ImageBytes(fl) ==
    IF fl = <<>> THEN <<>>
    ELSE [j \in 1..fl[1].length |-> FileByte(fl[1].path, j - 1)] \o ImageBytes(Tail(fl))

Max(a, b) == IF a > b THEN a ELSE b

\* C1: on an image whose streams have not failed, and with no stream fault
\* during the call, pread(buf, bytes, offset) returns without an exception
\* exactly min(bytes, max(0, total_size - offset)) bytes, and buf holds the
\* logical image bytes [offset, offset + returned) in order, across any number
\* of segment boundaries; at offset >= total_size it returns 0.
C1_PreadExact ==
    (ret.op = "pread" /\ ret.good /\ ret.fault = NoFault) =>
        /\ ret.exc = "none"
        /\ ret.n = Min(ret.bytes, Max(0, raw_filesize - ret.offset))
        /\ ret.buf = SubSeq(ImageBytes(file_list), ret.offset + 1, ret.offset + ret.n)
        /\ ret.offset >= raw_filesize => ret.n = 0

\* a read that starts in one segment and ends in a later one
C1_Witness ==
    /\ ret.op = "pread" /\ ret.good /\ ret.fault = NoFault
    /\ ret.n = ret.bytes
    /\ Len(file_list) >= 2
    /\ ret.offset < file_list[1].length
    /\ ret.offset + ret.n > file_list[2].offset
    /\ file_list[2].length > 0

\* C2: for 0 <= o < total_size find_offset(o) returns a segment and it is the
\* only segment whose range [start, start+length) holds o; for o >= total_size
\* it returns the null pointer.
C2_FindOffsetUnique ==
    ret.op = "find_offset" =>
        /\ ret.pos < raw_filesize =>
              /\ ret.found # 0
              /\ {i \in 1..Len(file_list) :
                     /\ file_list[i].offset <= ret.pos
                     /\ ret.pos < file_list[i].offset + file_list[i].length}
                  = {ret.found}
        /\ ret.pos >= raw_filesize => ret.found = 0

\* a lookup at the first offset of the second segment
C2_Witness ==
    /\ ret.op = "find_offset"
    /\ Len(file_list) >= 2
    /\ file_list[1].length > 0 /\ file_list[2].length > 0
    /\ ret.pos = file_list[2].offset
    /\ ret.found = 2

(***************************************************************************)
(* The cursor operations of the three backends.  A cursor is an            *)
(* image_process::iterator; each operation is given the iterator and       *)
(* yields the iterator as the call leaves it.                              *)
(***************************************************************************)
Cursors == {1}

\* size_t and uint64_t are modelled SizeBits wide; only a subtraction below
\* zero ever wraps here
SizeMod == 2 ^ 16
PtrdiffMax == (SizeMod \div 2) - 1

DirFile(k) == <<"f", DigitChars[k + 1]>>

image_size ==
    CASE backend = "raw" -> raw_filesize
      [] backend = "ewf" -> ewf_filesize
      [] backend = "dir" -> Len(files)

raw_begin == iterator_new

raw_end_bug == [iterator_new EXCEPT !.raw_offset = raw_filesize]

raw_end == [iterator_new EXCEPT !.raw_offset = raw_filesize, !.eof = TRUE]

ewf_begin == [iterator_new EXCEPT !.raw_offset = 0]

ewf_end == [iterator_new EXCEPT !.raw_offset = ewf_filesize, !.eof = TRUE]

dir_begin == iterator_new

dir_end == [iterator_new EXCEPT !.file_number = Len(files), !.eof = TRUE]

raw_increment_iterator_bug(i) == [i EXCEPT !.raw_offset = i.raw_offset + pagesize]

raw_increment_iterator(i) ==
    LET o == i.raw_offset + pagesize
    IN [i EXCEPT !.raw_offset = IF o > raw_filesize THEN raw_filesize ELSE o]

ewf_increment_iterator(i) ==
    LET o == i.raw_offset + pagesize
    IN [i EXCEPT !.raw_offset = IF o > ewf_filesize THEN ewf_filesize ELSE o]

dir_increment_iterator_bug(i) ==
    LET n == i.file_number + 2
    IN [i EXCEPT !.file_number = IF n > Len(files) THEN Len(files) ELSE n]

dir_increment_iterator(i) ==
    LET n == i.file_number + 1
    IN [i EXCEPT !.file_number = IF n > Len(files) THEN Len(files) ELSE n]

\* seek_block: the iterator and the block number returned
raw_seek_block(i, block) ==
    LET b == IF block * pagesize > raw_filesize
             THEN raw_filesize \div pagesize ELSE block
    IN [it |-> [i EXCEPT !.raw_offset = b * pagesize], block |-> b]

ewf_seek_block(i, block) ==
    [it |-> [i EXCEPT !.raw_offset = pagesize * block], block |-> block]

dir_seek_block(i, block) ==
    [it |-> [i EXCEPT !.file_number = block], block |-> block]

\* fraction_done: the two doubles that are divided
raw_fraction_done(i) == [num |-> i.raw_offset, den |-> raw_filesize]

ewf_fraction_done(i) == [num |-> i.raw_offset, den |-> ewf_filesize]

dir_fraction_done(i) == [num |-> i.file_number, den |-> Len(files)]

(***************************************************************************)
(* process_ewf::pread.  The decoder's random read gives the bytes of the   *)
(* media from offset on, none at or past the end, or a negative count      *)
(* when reading the data fails.                                            *)
(***************************************************************************)
decoder_read(bytes, offset, fail) ==
    LET n == IF fail /\ bytes > 0 /\ offset < ewf_filesize THEN -1
             ELSE IF offset >= ewf_filesize THEN 0
             ELSE Min(bytes, ewf_filesize - offset)
    IN [n |-> n, data |-> [k \in 1..n |-> <<"ewf", offset + k - 1>>]]

\* the byte count process_ewf::pread hands to the decoder's random read
ewf_request_bytes(bytes, offset) ==
    IF ewf_api = "handle" THEN bytes
    ELSE IF bytes + offset > ewf_filesize
         THEN (ewf_filesize - offset) % SizeMod ELSE bytes

ewf_pread(bytes, offset, fail) ==
    decoder_read(ewf_request_bytes(bytes, offset), offset, fail)

(***************************************************************************)
(* sbuf_alloc: the page made at the cursor, or how the call ends instead.  *)
(***************************************************************************)
NoPage == [bufsize |-> 0, pagesize |-> 0, buf |-> <<>>]

sbuf_count_bug(filesize, raw_offset) == pagesize + margin

sbuf_count(filesize, raw_offset) ==
    LET count == pagesize + margin
    IN IF filesize < raw_offset + count
       THEN (filesize - raw_offset) % SizeMod ELSE count

this_pagesize_bug(count) == pagesize

this_pagesize(count) == IF pagesize > count THEN count ELSE pagesize

pos0_t(path, offset) == [path |-> path, offset |-> offset]

raw_get_pos0(i) == pos0_t(<<>>, i.raw_offset)

ewf_get_pos0(i) == pos0_t(<<>>, i.raw_offset)

\* sbuf_t::sbuf_malloc cannot allocate more than PTRDIFF_MAX bytes
sbuf_malloc(pos0, count, this_page) ==
    IF count > PtrdiffMax THEN NoPage
    ELSE [pos0 |-> pos0, bufsize |-> count, pagesize |-> this_page, buf |-> <<>>]

no_data_read_bug(count_read) == count_read < pagesize

no_data_read(count_read) == count_read = 0

raw_sbuf_alloc(i, fault) ==
    LET count == sbuf_count(raw_filesize, i.raw_offset)
        sbuf == sbuf_malloc(raw_get_pos0(i), count, this_pagesize(count))
        r == pread(file_list, count, i.raw_offset, fault)
    IN IF sbuf = NoPage /\ count > PtrdiffMax
       THEN [it |-> i, fl |-> file_list, result |-> "bad_alloc", page |-> NoPage]
       ELSE IF r.exc # "none"
       THEN [it |-> i, fl |-> r.fl, result |-> r.exc, page |-> NoPage]
       ELSE IF no_data_read(r.n)
       THEN [it |-> [i EXCEPT !.eof = TRUE], fl |-> r.fl, result |-> "EndOfImage",
             page |-> NoPage]
       ELSE IF r.n < 0
       THEN [it |-> i, fl |-> r.fl, result |-> "read_error", page |-> NoPage]
       ELSE [it |-> i, fl |-> r.fl, result |-> "page",
             page |-> [sbuf EXCEPT !.buf = r.buf]]

ewf_sbuf_alloc(i, fault) ==
    LET count == sbuf_count(ewf_filesize, i.raw_offset)
        sbuf == sbuf_malloc(ewf_get_pos0(i), count, this_pagesize(count))
        r == ewf_pread(count, i.raw_offset, fault # NoFault)
    IN IF sbuf = NoPage /\ count > PtrdiffMax
       THEN [it |-> i, fl |-> file_list, result |-> "bad_alloc", page |-> NoPage]
       ELSE IF r.n < 0
       THEN [it |-> i, fl |-> file_list, result |-> "read_error", page |-> NoPage]
       ELSE IF count = 0
       THEN [it |-> [i EXCEPT !.eof = TRUE], fl |-> file_list, result |-> "null",
             page |-> NoPage]
       ELSE [it |-> i, fl |-> file_list, result |-> "page",
             page |-> [sbuf EXCEPT !.buf = r.data]]

\* process_dir::sbuf_alloc maps the whole file; files[it.file_number] past
\* the end of the vector is undefined: the call crashes or maps whatever
\* the memory there names
dir_sbuf_alloc(i, crash) ==
    IF i.file_number < Len(files)
    THEN [it |-> i, fl |-> file_list, result |-> "page",
          page |-> [pos0 |-> pos0_t(files[i.file_number + 1], 0), bufsize |-> 1,
                    pagesize |-> 1, buf |-> <<files[i.file_number + 1]>>]]
    ELSE [it |-> i, fl |-> file_list,
          result |-> IF crash THEN "crash" ELSE "garbage", page |-> NoPage]

(***************************************************************************)
(* Calls on a cursor of an opened image.                                   *)
(***************************************************************************)
begin(c) ==
    /\ pc = "opened"
    /\ it' = (c :> (CASE backend = "raw" -> raw_begin
                      [] backend = "ewf" -> ewf_begin
                      [] backend = "dir" -> dir_begin)) @@ it
    /\ ret' = [op |-> "begin", c |-> c]
    /\ UNCHANGED <<pc, num, fsvars, cfgvars, imgvars>>

end(c) ==
    /\ pc = "opened"
    /\ it' = (c :> (CASE backend = "raw" -> raw_end
                      [] backend = "ewf" -> ewf_end
                      [] backend = "dir" -> dir_end)) @@ it
    /\ ret' = [op |-> "end", c |-> c]
    /\ UNCHANGED <<pc, num, fsvars, cfgvars, imgvars>>

increment(c) ==
    /\ pc = "opened"
    /\ c \in DOMAIN it
    /\ it' = [it EXCEPT ![c] = CASE backend = "raw" -> raw_increment_iterator(it[c])
                                 [] backend = "ewf" -> ewf_increment_iterator(it[c])
                                 [] backend = "dir" -> dir_increment_iterator(it[c])]
    /\ ret' = [op |-> "increment", c |-> c, before |-> it[c]]
    /\ UNCHANGED <<pc, num, fsvars, cfgvars, imgvars>>

seek_block_bug(c, block) ==
    /\ pc = "opened"
    /\ c \in DOMAIN it
    /\ LET r == CASE backend = "raw" -> raw_seek_block(it[c], block)
                  [] backend = "ewf" -> ewf_seek_block(it[c], block)
                  [] backend = "dir" -> dir_seek_block(it[c], block)
       IN /\ it' = [d \in DOMAIN it |-> r.it]
          /\ ret' = [op |-> "seek_block", c |-> c, block |-> block, actual |-> r.block]
    /\ UNCHANGED <<pc, num, fsvars, cfgvars, imgvars>>

seek_block(c, block) ==
    /\ pc = "opened"
    /\ c \in DOMAIN it
    /\ LET r == CASE backend = "raw" -> raw_seek_block(it[c], block)
                  [] backend = "ewf" -> ewf_seek_block(it[c], block)
                  [] backend = "dir" -> dir_seek_block(it[c], block)
       IN /\ it' = [it EXCEPT ![c] = r.it]
          /\ ret' = [op |-> "seek_block", c |-> c, block |-> block, actual |-> r.block]
    /\ UNCHANGED <<pc, num, fsvars, cfgvars, imgvars>>

fraction_done(c) ==
    /\ pc = "opened"
    /\ c \in DOMAIN it
    /\ LET f == CASE backend = "raw" -> raw_fraction_done(it[c])
                  [] backend = "ewf" -> ewf_fraction_done(it[c])
                  [] backend = "dir" -> dir_fraction_done(it[c])
       IN ret' = [op |-> "fraction_done", c |-> c, num |-> f.num, den |-> f.den,
                  after |-> IF ret.op = "seek_block" /\ ret.c = c THEN ret ELSE NoRet]
    /\ UNCHANGED <<pc, num, fsvars, cfgvars, imgvars, it>>

sbuf_alloc(c, fault) ==
    /\ pc = "opened"
    /\ c \in DOMAIN it
    /\ LET r == CASE backend = "raw" -> raw_sbuf_alloc(it[c], fault)
                  [] backend = "ewf" -> ewf_sbuf_alloc(it[c], fault)
                  [] backend = "dir" -> dir_sbuf_alloc(it[c], fault # NoFault)
       IN /\ it' = [it EXCEPT ![c] = r.it]
          /\ file_list' = r.fl
          /\ ret' = [op |-> "sbuf_alloc", c |-> c, at |-> it[c], fault |-> fault,
                     good |-> StreamsGood(file_list), result |-> r.result,
                     page |-> r.page]
    /\ UNCHANGED <<pc, num, fsvars, cfgvars, raw_filesize, ewf_filesize, files>>

\* what can go wrong under sbuf_alloc at cursor i: a fault of the stream of
\* the segment the read starts in (one stream of the image fails in a run; it
\* then stays failed), a failing decoder read, the outcome of the undefined
\* vector access
CursorFaults(i) ==
    CASE backend = "raw" ->
           IF StreamsGood(file_list) /\ find_offset(file_list, i.raw_offset) # 0
           THEN {NoFault} \cup {[seg |-> find_offset(file_list, i.raw_offset),
                                  op |-> o, bits |-> {"failbit"}] :
                                   o \in {"seek", "read"}}
           ELSE {NoFault}
      [] backend = "ewf" -> {NoFault, [seg |-> 1, op |-> "read", bits |-> {"failbit"}]}
      [] backend = "dir" -> {NoFault, [seg |-> 1, op |-> "read", bits |-> {"failbit"}]}

InitCursor ==
    /\ pc = "opened"
    /\ image_fname = NumberedName(0)
    /\ num = 0
    /\ backend \in {"raw", "ewf", "dir"}
    /\ ewf_api \in {"handle", "legacy"}
    /\ backend # "ewf" => ewf_api = "handle"
    /\ IF backend = "dir"
       THEN pagesize = 0 /\ margin = 0
       ELSE pagesize \in 1..MaxPage /\ margin \in 0..MaxMargin
    /\ IF backend = "raw"
       THEN \E o \in CursorImages :
               /\ fs = o.fs
               /\ file_list = o.img.file_list
               /\ raw_filesize = o.img.raw_filesize
       ELSE /\ fs = [n \in AllNames |-> IF n = NumberedName(0) THEN 0 ELSE NoFile]
            /\ file_list = <<>>
            /\ raw_filesize = 0
    /\ ewf_filesize \in 0..MaxEwfSize
    /\ backend # "ewf" => ewf_filesize = 0
    /\ \E n \in 0..MaxDirFiles : files = [k \in 1..n |-> DirFile(k)]
    /\ backend # "dir" => files = <<>>
    /\ it = <<>>
    /\ ret = NoRet
    /\ world = NoWorld
    /\ calls = NoCalls
    /\ out = <<>>
    /\ hashdb = NoScanner

NextCursor ==
    \/ \E c \in Cursors : begin(c)
    \/ \E c \in Cursors : end(c)
    \/ \E c \in Cursors : increment(c)
    \/ \E c \in Cursors, block \in 0..MaxBlock : seek_block(c, block)
    \/ \E c \in Cursors : fraction_done(c)
    \/ \E c \in DOMAIN it : \E fault \in CursorFaults(it[c]) : sbuf_alloc(c, fault)

SpecCursor == InitCursor /\ [][NextCursor]_vars

\* the loop that reads an image page by page: begin(), then sbuf_alloc and
\* increment in turn
NextIterate ==
    \/ \E c \in Cursors : begin(c)
    \/ \E c \in Cursors : increment(c)
    \/ \E c \in DOMAIN it : \E fault \in CursorFaults(it[c]) : sbuf_alloc(c, fault)

SpecIterate == InitCursor /\ [][NextIterate]_vars

(***************************************************************************)
(* Properties of the cursor and the page producer.                         *)
(***************************************************************************)
ByteAddressed == backend \in {"raw", "ewf"}

Position(i) == IF backend = "dir" THEN i.file_number ELSE i.raw_offset

C6_SeekBlockClamped ==
    (ByteAddressed /\ image_size > 0 /\ ret.op = "seek_block") =>
        it[ret.c].raw_offset <= image_size

\* C7 (as claimed): with total_size > 0, seek_block(n) with n * page_size <=
\* total_size returns n and fraction_done then is (n * page_size) / total_size;
\* for larger n the block returned is the clamped block whose offset the
\* cursor holds.
C7_SeekBlockFraction ==
    (ByteAddressed /\ image_size > 0 /\ ret.op = "fraction_done"
        /\ ret.after.op = "seek_block") =>
        LET n == ret.after.block
        IN /\ n * pagesize <= image_size =>
                 /\ ret.after.actual = n
                 /\ ret.num * image_size = n * pagesize * ret.den
           /\ n * pagesize > image_size =>
                 /\ ret.after.actual * pagesize = it[ret.c].raw_offset
                 /\ ret.after.actual * pagesize <= image_size

\* C8: at a cursor with offset <= total_size on a byte-addressed backend, the
\* page sbuf_alloc makes has total length min(page_size + margin, total_size -
\* offset) and usable length min(page_size, total length); so the usable
\* length is at most page_size and the page ends inside the image.
C8_PageLengths ==
    (ByteAddressed /\ ret.op = "sbuf_alloc" /\ ret.result = "page"
        /\ ret.at.raw_offset <= image_size) =>
        /\ ret.page.bufsize = Min(pagesize + margin, image_size - ret.at.raw_offset)
        /\ ret.page.pagesize = Min(pagesize, ret.page.bufsize)
        /\ ret.page.pagesize <= pagesize
        /\ ret.at.raw_offset + ret.page.bufsize <= image_size

\* a page whose margin is cut by the end of the image
C8_Witness ==
    /\ ByteAddressed /\ ret.op = "sbuf_alloc" /\ ret.result = "page"
    /\ ret.at.raw_offset > 0
    /\ margin > 0
    /\ ret.page.pagesize = pagesize
    /\ ret.page.bufsize < pagesize + margin

\* C9: iterating from begin() by increment() with a page request at each
\* position, the last page has usable length total_size mod page_size when
\* that is not zero and page_size when it is.
C9_LastPage ==
    (ByteAddressed /\ ret.op = "sbuf_alloc" /\ ret.result = "page"
        /\ ret.at.raw_offset + pagesize >= image_size) =>
        ret.page.pagesize =
            (IF image_size % pagesize = 0 THEN pagesize ELSE image_size % pagesize)

\* the last page of an image that is more than one page long and not a whole
\* number of pages
C9_Witness ==
    /\ ByteAddressed /\ ret.op = "sbuf_alloc" /\ ret.result = "page"
    /\ ret.at.raw_offset > 0
    /\ ret.at.raw_offset + pagesize > image_size
    /\ ret.page.pagesize = image_size % pagesize

\* C10: on a byte-addressed backend sbuf_alloc at offset = total_size makes no
\* page: it signals end-of-image and sets the cursor's eof flag; at offset <
\* total_size, unless the read raises an error, it makes a non-empty page, and
\* neither signals end-of-image nor sets eof, also when the page is shorter
\* than page_size.
C10_EndOfImageSignal ==
    (ByteAddressed /\ ret.op = "sbuf_alloc") =>
        /\ ret.at.raw_offset = image_size =>
              /\ ret.result \in {"EndOfImage", "null"}
              /\ it[ret.c].eof
        /\ (ret.at.raw_offset < image_size
               /\ ret.result \notin {"SeekError", "ReadError", "read_error"}) =>
              /\ ret.result = "page"
              /\ ret.page.bufsize > 0
              /\ it[ret.c].eof = ret.at.eof

\* a final page shorter than page_size is made
C10_Witness ==
    /\ ByteAddressed /\ ret.op = "sbuf_alloc" /\ ret.result = "page"
    /\ ret.at.raw_offset < image_size
    /\ ret.page.bufsize < pagesize
    /\ ~it[ret.c].eof

(***************************************************************************)
(* The factory image_process::open(fn, opt_recurse, pagesize, margin).     *)
(* world holds what the call is given and what it finds: kind is what the  *)
(* path names ("missing", "file" or "dir"), fname the path, children the   *)
(* names directory_iterator yields, opt_recurse the flag, have_libewf      *)
(* whether the build defines HAVE_LIBEWF, and open_throws what the         *)
(* backend's open() does (it returns 0 or throws).                         *)
(***************************************************************************)
UpperChars == <<"A", "B", "C", "D", "E", "F", "G", "H", "I", "J", "K", "L", "M",
                "N", "O", "P", "Q", "R", "S", "T", "U", "V", "W", "X", "Y", "Z">>
LowerChars == <<"a", "b", "c", "d", "e", "f", "g", "h", "i", "j", "k", "l", "m",
                "n", "o", "p", "q", "r", "s", "t", "u", "v", "w", "x", "y", "z">>
\* ::tolower on one character
tolower(c) ==
    IF \E k \in 1..26 : UpperChars[k] = c
    THEN LowerChars[CHOOSE k \in 1..26 : UpperChars[k] = c]
    ELSE c
\* std::transform(ext.begin(), ext.end(), ext.begin(), ::tolower)
transform_tolower(str) == [k \in 1..Len(str) |-> tolower(str[k])]

\* std::filesystem::path::extension of a name without directory part: from
\* the last period on, empty when there is none, when the only period leads
\* the name, and for the names . and ..
extension(fn) ==
    LET p == rfind(fn, <<".">>)
    IN IF p = 0 \/ p = 1 \/ fn = <<".", ".">> THEN <<>>
       ELSE SubSeq(fn, p, Len(fn))

\* std::string::find(pat) != npos
find(str, pat) == rfind(str, pat) # 0

\* the file names given to the factory
FactoryFiles ==
    {<<"a", ".", "e", "0", "1">>, <<"a", ".", "E", "0", "1">>,
     <<"a", ".", "r", "a", "w">>, <<"a", ".", "E", "0", "1", ".", "r">>,
     <<"a", ".", "0", "0", "1">>, <<"e", "0", "1">>}
\* the names a directory given to the factory can hold
ChildNames ==
    {<<"x", ".", "E", "0", "1">>, <<"x", ".", "e", "0", "1">>,
     <<"x", ".", "0", "0", "0">>, <<"x", ".", "0", "0", "1">>,
     <<"x", ".", "t", "x", "t">>, <<".", "0", "0", "0">>}
DirName == <<"d">>

opt_recurse_refused_bug(opt_recurse) == FALSE

\* opt_recurse==0
opt_recurse_refused(opt_recurse) == opt_recurse = FALSE

is_disk_image_extension_bug(ext) ==
    ext \in {<<".", "E", "0", "1">>, <<".", "0", "0", "0">>}

\* the test of the quick scan of a directory
is_disk_image_extension(ext) ==
    ext \in {<<".", "E", "0", "1">>, <<".", "0", "0", "0">>, <<".", "0", "0", "1">>}

\* the test that selects process_ewf for a file
is_ewf_name(fname_string) ==
    LET ext == transform_tolower(extension(fname_string))
    IN ext = <<"e", "0", "1">> \/ find(fname_string, <<".", "E", "0", "1">>)

\* the virtual open() of the constructed backend: each of process_ewf::open,
\* process_raw::open and process_dir::open returns 0 or throws
backend_open(b, throws) ==
    IF throws
    THEN [rc |-> 0, exc |-> IF b = "ewf" THEN "NoSuchFile" ELSE
                             IF b = "raw" THEN "ReadError" ELSE "filesystem_error"]
    ELSE [rc |-> 0, exc |-> "none"]

\* what the factory does once it has constructed backend b
try_open(b, throws) ==
    LET r == backend_open(b, throws)
    IN IF r.exc # "none"
       THEN [exc |-> r.exc, constructed |-> b, open_called |-> TRUE, returned |-> "none"]
       ELSE IF r.rc # 0
       THEN [exc |-> "NoSuchFile", constructed |-> b, open_called |-> TRUE,
             returned |-> "none"]
       ELSE [exc |-> "none", constructed |-> b, open_called |-> TRUE, returned |-> b]

factory_throw(e) ==
    [exc |-> e, constructed |-> "none", open_called |-> FALSE, returned |-> "none"]

image_process_open(w) ==
    IF w.kind = "missing" THEN factory_throw("NoSuchFile")
    ELSE IF w.kind = "dir"
    THEN IF opt_recurse_refused(w.opt_recurse) THEN factory_throw("IsADirectory")
         ELSE IF \E p \in w.children : is_disk_image_extension(extension(p))
         THEN factory_throw("FoundDiskImage")
         ELSE try_open("dir", w.open_throws)
    ELSE IF is_ewf_name(w.fname)
    THEN IF w.have_libewf THEN try_open("ewf", w.open_throws)
         ELSE factory_throw("NoSupport")
    ELSE try_open("raw", w.open_throws)

call_image_process_open ==
    /\ pc = "new"
    /\ world.kind # "none"
    /\ LET r == image_process_open(world)
       IN /\ ret' = [op |-> "image_process::open"] @@ r
          /\ backend' = r.constructed
          /\ pc' = IF r.returned = "none" THEN "failed" ELSE "opened"
    /\ UNCHANGED <<num, fsvars, ewf_api, pagesize, margin, imgvars, it>>

Worlds ==
    {[kind |-> "missing", fname |-> f, children |-> {}, opt_recurse |-> r,
      have_libewf |-> h, open_throws |-> FALSE] :
        f \in FactoryFiles \cup {DirName}, r \in BOOLEAN, h \in BOOLEAN}
    \cup {[kind |-> "file", fname |-> f, children |-> {}, opt_recurse |-> r,
           have_libewf |-> h, open_throws |-> t] :
        f \in FactoryFiles, r \in BOOLEAN, h \in BOOLEAN, t \in BOOLEAN}
    \cup {[kind |-> "dir", fname |-> DirName, children |-> c, opt_recurse |-> r,
           have_libewf |-> h, open_throws |-> t] :
        c \in SUBSET ChildNames, r \in BOOLEAN, h \in BOOLEAN, t \in BOOLEAN}

InitFactory ==
    /\ pc = "new"
    /\ world \in Worlds
    /\ image_fname = world.fname
    /\ fs = [n \in {world.fname} |-> IF world.kind = "file" THEN 0 ELSE NoFile]
    /\ num = 0
    /\ backend = "none"
    /\ ewf_api = "handle"
    /\ pagesize \in 1..MaxPage
    /\ margin = 0
    /\ file_list = <<>>
    /\ raw_filesize = 0
    /\ ewf_filesize = 0
    /\ files = <<>>
    /\ it = <<>>
    /\ ret = NoRet
    /\ calls = NoCalls
    /\ out = <<>>
    /\ hashdb = NoScanner

NextFactory == call_image_process_open

SpecFactory == InitFactory /\ [][NextFactory]_vars

FactoryCalled == ret.op = "image_process::open"
DiskImageExtensions ==
    {<<".", "E", "0", "1">>, <<".", "0", "0", "0">>, <<".", "0", "0", "1">>}

\* C12: image_process::open on a directory, with recursion permitted, that
\* has an immediate child with extension .E01, .000 or .001 fails with
\* FoundDiskImage and constructs no directory backend; a directory backend
\* is constructed only when no immediate child has such an extension.
C12_DirectoryWithImageRefused ==
    (FactoryCalled /\ world.kind = "dir" /\ world.opt_recurse) =>
        LET found == \E p \in world.children : extension(p) \in DiskImageExtensions
        IN /\ found => (ret.exc = "FoundDiskImage" /\ ret.constructed = "none")
           /\ ret.constructed = "dir" => ~found
           /\ ~found => ret.constructed = "dir"

C12_Witness ==
    /\ FactoryCalled
    /\ world.kind = "dir"
    /\ world.opt_recurse
    /\ world.children = {<<"x", ".", "t", "x", "t">>, <<"x", ".", "0", "0", "1">>}
    /\ ret.exc = "FoundDiskImage"

\* C13: image_process::open fails with NoSuchFile for every path that does
\* not exist, whatever the recursion flag, and with IsADirectory for every
\* existing directory when recursion is not permitted; in both cases no
\* backend is constructed and no backend open() is called.
C13_MissingOrDirectoryRefused ==
    FactoryCalled =>
        /\ world.kind = "missing" =>
              (ret.exc = "NoSuchFile" /\ ret.constructed = "none" /\ ~ret.open_called)
        /\ (world.kind = "dir" /\ ~world.opt_recurse) =>
              (ret.exc = "IsADirectory" /\ ret.constructed = "none" /\ ~ret.open_called)

C13_Witness ==
    /\ FactoryCalled
    /\ world.kind = "dir"
    /\ ~world.opt_recurse
    /\ world.children # {}
    /\ ret.exc = "IsADirectory"
    /\ pc = "failed"

\* C14: for an existing file, image_process::open selects the container-format
\* backend (NoSupport when the decoder is not compiled in) if and only if the
\* lower-cased extension of the file is the container-format extension e01;
\* every other file is given to the segmented-raw backend; open() of the
\* constructed backend is then called.
C14_ExtensionSelectsBackend ==
    (FactoryCalled /\ world.kind = "file") =>
        LET e01 == transform_tolower(extension(world.fname)) = <<".", "e", "0", "1">>
        IN /\ e01 => IF world.have_libewf THEN ret.constructed = "ewf"
                     ELSE ret.exc = "NoSupport"
           /\ ~e01 => ret.constructed = "raw"
           /\ ret.constructed # "none" => ret.open_called

(***************************************************************************)
(* process_raw::pread step by step, as a thread runs it: the call, then    *)
(* for each invocation find_offset with seekg, then read with the checks   *)
(* and the return or the recursive call.  calls[t] is the call of thread   *)
(* t: bytes and offset are the arguments of the current invocation,        *)
(* req_bytes and req_offset those of the outermost one, n and buf what the *)
(* outer invocations have read, depth the number of recursive calls made.  *)
(* There is no lock in pread: steps of different threads interleave.       *)
(***************************************************************************)
\* largest number of segments, segment length and byte count in the runs
\* with two threads
MaxRaceSegments == 1
MaxRaceSegLen == 2
MaxRaceBytes == 1
Threads == {1, 2}
IdleCall ==
    [pc |-> "idle", bytes |-> 0, offset |-> 0, req_bytes |-> 0, req_offset |-> 0,
     n |-> 0, buf |-> <<>>, depth |-> 0, seg |-> 0, to_read |-> 0, exc |-> "none"]

pread_call(t, bytes, offset) ==
    /\ pc = "opened"
    /\ backend = "raw"
    /\ calls[t].pc \in {"idle", "done"}
    /\ calls' = [calls EXCEPT ![t] =
                   [IdleCall EXCEPT !.pc = "seek", !.bytes = bytes, !.offset = offset,
                                    !.req_bytes = bytes, !.req_offset = offset]]
    /\ ret' = [op |-> "pread", thread |-> t]
    /\ UNCHANGED <<pc, num, image_fname, fs, world, out, hashdb, cfgvars, imgvars, it>>

\* find_offset, and the seekg with its check
pread_seek(t) ==
    LET c == calls[t]
        i == find_offset(file_list, c.offset)
    IN /\ c.pc = "seek"
       /\ IF i = 0
          THEN /\ calls' = [calls EXCEPT ![t].pc = "done"]
               /\ UNCHANGED file_list
          ELSE LET fi == file_list[i]
                   file_offset == c.offset - fi.offset
                   available_bytes == fi.length - file_offset
                   sought == seekg(fi, file_offset, FALSE)
               IN /\ file_list' = [file_list EXCEPT ![i] = sought]
                  /\ calls' = [calls EXCEPT ![t] =
                        IF rdstate_and(sought.rdstate, {"failbit", "badbit"})
                        THEN [c EXCEPT !.pc = "done", !.n = 0, !.exc = "SeekError"]
                        ELSE [c EXCEPT !.pc = "read", !.seg = i,
                                       !.to_read = bytes_to_read(c.bytes, available_bytes)]]
       /\ ret' = [op |-> "seekg", thread |-> t]
       /\ UNCHANGED <<pc, num, image_fname, fs, world, out, hashdb, cfgvars,
                      raw_filesize, ewf_filesize, files, it>>

\* the read with its checks, then the return or the recursive call
pread_read(t) ==
    LET c == calls[t]
        rd == stream_read(file_list[c.seg], c.to_read, {})
        bytes_read == c.to_read
        got == [c EXCEPT !.buf = c.buf \o rd.data]
    IN /\ c.pc = "read"
       /\ file_list' = [file_list EXCEPT ![c.seg] = rd.fi]
       /\ calls' = [calls EXCEPT ![t] =
             IF rdstate_and(rd.fi.rdstate, {"failbit"})
                \/ rdstate_and(rd.fi.rdstate, {"badbit"})
             THEN [got EXCEPT !.pc = "done", !.n = 0, !.exc = "ReadError"]
             ELSE IF rdstate_and(rd.fi.rdstate, {"eofbit"})
             THEN [got EXCEPT !.pc = "done", !.n = 0, !.exc = "EndOfImage"]
             ELSE IF bytes_read = c.bytes
             THEN [got EXCEPT !.pc = "done", !.n = c.n + bytes_read]
             ELSE IF bytes_read = 0
             THEN [got EXCEPT !.pc = "done"]
             ELSE [got EXCEPT !.pc = "seek", !.n = c.n + bytes_read,
                              !.bytes = recurse_bytes(c.bytes, bytes_read),
                              !.offset = recurse_offset(c.offset, bytes_read),
                              !.depth = c.depth + 1]]
       /\ ret' = [op |-> "read", thread |-> t]
       /\ UNCHANGED <<pc, num, image_fname, fs, world, out, hashdb, cfgvars,
                      raw_filesize, ewf_filesize, files, it>>

\* an image process_raw::open has opened
InitOpened(images) ==
    /\ pc = "opened"
    /\ image_fname = NumberedName(0)
    /\ num = 0
    /\ backend = "raw"
    /\ ewf_api = "handle"
    /\ pagesize = 1
    /\ margin = 0
    /\ \E o \in images :
          /\ fs = o.fs
          /\ file_list = o.img.file_list
          /\ raw_filesize = o.img.raw_filesize
    /\ ewf_filesize = 0
    /\ files = <<>>
    /\ it = <<>>
    /\ ret = NoRet
    /\ world = NoWorld
    /\ out = <<>>
    /\ hashdb = NoScanner

InitCalls(images) ==
    /\ InitOpened(images)
    /\ calls = [t \in Threads |-> IdleCall]

\* two threads, each calling pread
InitRace == InitCalls(OpenedImagesOf(MaxRaceSegments, MaxRaceSegLen))

NextRace ==
    \/ \E t \in Threads, bytes \in 0..MaxRaceBytes, offset \in 0..raw_filesize :
          pread_call(t, bytes, offset)
    \/ \E t \in Threads : pread_seek(t)
    \/ \E t \in Threads : pread_read(t)

SpecRace == InitRace /\ [][NextRace]_vars

\* what pread(buf, bytes, offset) has to put into buf
Expected(bytes, offset) ==
    LET n == Min(bytes, Max(0, raw_filesize - offset))
    IN SubSeq(ImageBytes(file_list), offset + 1, offset + n)

\* C15: when two threads call process_raw::pread concurrently, the seek and
\* the read of one call are not separated by a seek of the other, so each
\* call that is done has returned the bytes at its own requested offset.
C15_EachCallReadsItsOwnOffset ==
    \A t \in DOMAIN calls :
        calls[t].pc = "done" =>
            /\ calls[t].exc = "none"
            /\ calls[t].buf = Expected(calls[t].req_bytes, calls[t].req_offset)

(***************************************************************************)
(* One thread calling pread again and again.                               *)
(***************************************************************************)
InitSerial == InitCalls(CursorImages)

NextSerial ==
    \/ \E bytes \in 0..MaxBytes, offset \in 0..(raw_filesize + MaxExtra) :
          pread_call(1, bytes, offset)
    \/ pread_seek(1)
    \/ pread_read(1)

SpecSerial ==
    InitSerial /\ [][NextSerial]_vars /\ WF_vars(pread_seek(1) \/ pread_read(1))

\* C17: process_raw::pread terminates, also with zero-length segments and with
\* requests at or past the end of the image: every call that has started
\* returns; each recursive call is made with a strictly larger offset and a
\* strictly smaller byte count; a read of zero bytes ends the call; and the
\* number of recursive calls is at most the number of segments.
C17_PreadTerminates ==
    /\ (calls[1].pc \in {"seek", "read"}) ~> (calls[1].pc = "done")
    /\ [][(calls[1].pc = "read" /\ calls'[1].pc = "seek") =>
             /\ calls'[1].offset > calls[1].offset
             /\ calls'[1].bytes < calls[1].bytes
             /\ calls'[1].bytes >= 0]_vars
    /\ [][(calls[1].pc = "read" /\ calls[1].to_read = 0) => calls'[1].pc = "done"]_vars
    /\ [](calls[1].depth <= Len(file_list))

\* a request that runs over a zero-length segment and past the end of the image
C17_Witness ==
    /\ calls[1].pc = "done"
    /\ calls[1].depth >= 1
    /\ \E i \in 1..Len(file_list) : file_list[i].length = 0
    /\ calls[1].req_offset + calls[1].req_bytes > raw_filesize

(***************************************************************************)
(* pread on an image whose streams can fail: a seekg that fails, a read    *)
(* that fails (failbit or badbit), and a read that meets the end of a      *)
(* truncated file (eofbit and failbit), in any segment of the image.       *)
(***************************************************************************)
\* largest byte count asked of pread in the runs with failing streams
MaxFaultBytes == 2

InitFault ==
    /\ InitOpened(CursorImages)
    /\ calls = NoCalls

\* the first call of a run meets a stream operation that fails, or none; the
\* calls that follow find the stream failed
FaultsNow == IF StreamsGood(file_list) THEN Faults(Len(file_list)) ELSE {NoFault}

NextFault ==
    \E bytes \in 0..MaxFaultBytes, offset \in 0..(raw_filesize + MaxExtra),
       fault \in FaultsNow :
          /\ ret = NoRet \/ ~StreamsGood(file_list)
          /\ call_pread(bytes, offset, fault)

SpecFault == InitFault /\ [][NextFault]_vars

\* the call asks for at least one byte of the segment the fault is in
FaultInRequest ==
    /\ ret.fault.seg # 0
    /\ LET fi == file_list[ret.fault.seg]
       IN Max(ret.offset, fi.offset) < Min(ret.offset + ret.bytes, fi.offset + fi.length)

\* C16: process_raw::pread never returns with fewer bytes than
\* min(bytes, total_size - offset): when it returns, buf holds that many
\* bytes of the image; a failing seek, a failing read or a truncated segment
\* in any segment the request reads from makes the call throw SeekError or
\* ReadError, and no other exception is thrown.
C16_NoShortSuccess ==
    ret.op = "pread" =>
        /\ ret.exc = "none" =>
              /\ ret.n = Min(ret.bytes, Max(0, raw_filesize - ret.offset))
              /\ ret.buf = Expected(ret.bytes, ret.offset)
        /\ FaultInRequest => ret.exc \in {"SeekError", "ReadError"}
        /\ ret.exc \in {"none", "SeekError", "ReadError"}

\* a truncated first segment that has a following segment, and a failure in
\* the second segment of a request that starts in the first
C16_Witness ==
    /\ ret.op = "pread"
    /\ ret.good
    /\ ret.bytes = 2
    /\ ret.offset = 0
    /\ Len(file_list) = 2
    /\ file_list[1].length = 1
    /\ file_list[2].length = 1
    /\ ret.fault.seg = 2
    /\ ret.fault.op = "read"
    /\ ret.exc = "ReadError"
    /\ Len(ret.buf) = 1

(***************************************************************************)
(* Calls of process_ewf::pread on an opened container-format image.        *)
(***************************************************************************)
call_ewf_pread(bytes, offset, fail) ==
    /\ pc = "opened"
    /\ backend = "ewf"
    /\ LET r == ewf_pread(bytes, offset, fail)
       IN ret' = [op |-> "ewf_pread", bytes |-> bytes, offset |-> offset,
                  fail |-> fail,
                  request |-> [bytes |-> ewf_request_bytes(bytes, offset),
                               offset |-> offset],
                  n |-> r.n, buf |-> r.data]
    /\ UNCHANGED <<pc, num, fsvars, cfgvars, imgvars, it>>

InitEwf == InitCursor /\ backend = "ewf"

NextEwf ==
    \E bytes \in 0..MaxBytes, offset \in 0..(ewf_filesize + MaxExtra),
       fail \in BOOLEAN : call_ewf_pread(bytes, offset, fail)

SpecEwf == InitEwf /\ [][NextEwf]_vars

\* C18: the request process_ewf::pread hands to the decoder's random read
\* never extends past total_size: offset + requested bytes <= ewf_filesize,
\* in the build with the handle API and in the build with the legacy API
\* (stated here for the calls that ask for bytes from an offset inside the
\* image).
C18_RequestWithinImage ==
    (ret.op = "ewf_pread" /\ ret.bytes > 0 /\ ret.offset < ewf_filesize) =>
        ret.request.offset + ret.request.bytes <= ewf_filesize

(***************************************************************************)
(* process_dir::pread, and the loop that reads an image from begin() to    *)
(* end(): while the cursor differs from end(), sbuf_alloc a page, hand it  *)
(* on (out) and increment the cursor.                                      *)
(***************************************************************************)
dir_pread(bytes, offset) ==
    IF bytes > 0 THEN [n |-> 0, exc |-> "runtime_error"] ELSE [n |-> 0, exc |-> "none"]

call_dir_pread(bytes, offset) ==
    /\ pc = "opened"
    /\ backend = "dir"
    /\ LET r == dir_pread(bytes, offset)
       IN ret' = [op |-> "dir_pread", bytes |-> bytes, offset |-> offset,
                  n |-> r.n, exc |-> r.exc]
    /\ UNCHANGED <<pc, num, fsvars, cfgvars, imgvars, it>>

\* image_process::iterator::operator==: two cursors at end of data are equal,
\* otherwise they are equal when offset and file index are
iterator_equal(a, b) ==
    IF a.eof /\ b.eof THEN TRUE
    ELSE a.raw_offset = b.raw_offset /\ a.file_number = b.file_number

backend_end ==
    CASE backend = "raw" -> raw_end
      [] backend = "ewf" -> ewf_end
      [] backend = "dir" -> dir_end

loop_begin ==
    /\ pc = "opened"
    /\ it = <<>>
    /\ it' = (1 :> (CASE backend = "raw" -> raw_begin
                      [] backend = "ewf" -> ewf_begin
                      [] backend = "dir" -> dir_begin))
    /\ ret' = [op |-> "begin", c |-> 1]
    /\ UNCHANGED <<pc, num, fsvars, cfgvars, imgvars>>

loop_page ==
    /\ pc = "opened"
    /\ 1 \in DOMAIN it
    /\ ~iterator_equal(it[1], backend_end)
    /\ LET r == CASE backend = "raw" -> raw_sbuf_alloc(it[1], NoFault)
                  [] backend = "ewf" -> ewf_sbuf_alloc(it[1], NoFault)
                  [] backend = "dir" -> dir_sbuf_alloc(it[1], FALSE)
       IN /\ out' = Append(out, [result |-> r.result, page |-> r.page])
          /\ file_list' = r.fl
          /\ it' = [it EXCEPT ![1] =
                      CASE backend = "raw" -> raw_increment_iterator(r.it)
                        [] backend = "ewf" -> ewf_increment_iterator(r.it)
                        [] backend = "dir" -> dir_increment_iterator(r.it)]
          /\ ret' = [op |-> "loop_page", c |-> 1, at |-> it[1], result |-> r.result]
    /\ UNCHANGED <<pc, num, image_fname, fs, world, calls, hashdb, cfgvars,
                   raw_filesize, ewf_filesize, files>>

NextLoop ==
    \/ loop_begin
    \/ loop_page
    \/ \E bytes \in 0..MaxBytes, offset \in 0..(Len(files) + MaxExtra) :
          call_dir_pread(bytes, offset)

SpecLoop == InitCursor /\ [][NextLoop]_vars

LoopDone == 1 \in DOMAIN it /\ iterator_equal(it[1], backend_end)

raw_max_blocks(i) == (raw_filesize + pagesize - 1) \div pagesize

ewf_max_blocks(i) == ewf_filesize \div pagesize

dir_max_blocks(i) == Len(files)

max_blocks(c) ==
    /\ pc = "opened"
    /\ c \in DOMAIN it
    /\ ret' = [op |-> "max_blocks", c |-> c,
               blocks |-> CASE backend = "raw" -> raw_max_blocks(it[c])
                            [] backend = "ewf" -> ewf_max_blocks(it[c])
                            [] backend = "dir" -> dir_max_blocks(it[c])]
    /\ UNCHANGED <<pc, num, fsvars, cfgvars, imgvars, it>>

\* largest byte count asked of pread, largest image size and largest block
\* number in the runs with two cursors
MaxSharedBytes == 1
MaxSharedSize == 1
MaxSharedBlock == 1
SharedCursors == {1, 2}

InitShared ==
    /\ InitCursor
    /\ margin = 0
    /\ raw_filesize <= MaxSharedSize
    /\ ewf_filesize <= MaxSharedSize
    /\ Len(files) <= MaxSharedSize

NextShared ==
    \/ \E c \in SharedCursors : begin(c)
    \/ \E c \in SharedCursors : end(c)
    \/ \E c \in SharedCursors : increment(c)
    \/ \E c \in SharedCursors, block \in 0..MaxSharedBlock : seek_block(c, block)
    \/ \E c \in SharedCursors : fraction_done(c)
    \/ \E c \in SharedCursors : max_blocks(c)
    \/ \E c \in SharedCursors : sbuf_alloc(c, NoFault)
    \/ \E bytes \in 0..MaxSharedBytes, offset \in 0..raw_filesize :
          call_pread(bytes, offset, NoFault)
    \/ \E bytes \in 0..MaxSharedBytes, offset \in 0..ewf_filesize :
          call_ewf_pread(bytes, offset, FALSE)
    \/ \E bytes \in 0..MaxSharedBytes : call_dir_pread(bytes, 0)

SpecShared == InitShared /\ [][NextShared]_vars

\* the segment table: path, start and length of every segment
SegmentTable(fl) ==
    [k \in 1..Len(fl) |-> [path |-> fl[k].path, offset |-> fl[k].offset,
                            length |-> fl[k].length]]
\* the cursor a call works on, 0 for a pread
Actor(r) == IF "c" \in DOMAIN r THEN r.c ELSE 0

\* C20: after open(), no operation on a cursor (begin, end, increment,
\* seek_block, sbuf_alloc, fraction_done, max_blocks) and no pread changes the
\* segment table, the total size, the page size or the margin of the image,
\* and an operation on one cursor leaves offset, index and eof flag of every
\* other cursor over the image unchanged.
C20_ImageAndOtherCursorsUnchanged ==
    [][pc = "opened" =>
          /\ pc' = "opened"
          /\ SegmentTable(file_list') = SegmentTable(file_list)
          /\ raw_filesize' = raw_filesize
          /\ ewf_filesize' = ewf_filesize
          /\ files' = files
          /\ pagesize' = pagesize
          /\ margin' = margin
          /\ \A d \in DOMAIN it :
                d # Actor(ret') => (d \in DOMAIN it' /\ it'[d] = it[d])]_vars

\* a page request that sets eof on one cursor, and moves a stream, while the
\* other cursor is elsewhere
C20_Witness ==
    /\ backend = "raw"
    /\ ret.op = "sbuf_alloc"
    /\ ret.c = 1
    /\ it[1].eof
    /\ 2 \in DOMAIN it
    /\ ~it[2].eof
    /\ it[2].raw_offset # it[1].raw_offset
    /\ \E k \in 1..Len(file_list) : file_list[k].pos > 0

\* max_blocks of the opened image, whatever cursor it is asked with
backend_max_blocks ==
    CASE backend = "raw" -> raw_max_blocks(iterator_new)
      [] backend = "ewf" -> ewf_max_blocks(iterator_new)
      [] backend = "dir" -> dir_max_blocks(iterator_new)

\* C21: for every backend and image, max_blocks() is the number of pages the
\* loop from begin() by increment() to the end visits: ceil(total_size /
\* page_size) for the segmented-raw and the container-format backend alike,
\* the file count for the directory backend.
C21_MaxBlocksCountsPages ==
    LoopDone =>
        /\ backend_max_blocks = Len(out)
        /\ backend \in {"raw", "ewf"} =>
              backend_max_blocks = (image_size + pagesize - 1) \div pagesize
        /\ backend = "dir" => backend_max_blocks = Len(files)

\* C22: on the directory backend, for every cursor reached by begin(), end(),
\* increment() and seek_block(n) the file index stays <= the file count, and
\* sbuf_alloc() never indexes the file list at a position >= the file count.
C22_DirIndexInRange ==
    backend = "dir" =>
        /\ \A c \in DOMAIN it : it[c].file_number <= Len(files)
        /\ ret.op = "sbuf_alloc" => ret.at.file_number < Len(files)

\* C23: for a primary file whose name ends in .000 or .001, the template
\* open() gets from make_list_template replaces the three digits of that
\* suffix, and the first probe number is the suffix's value plus one, also
\* when 000 or 001 occurs earlier in the path; every name probed is the
\* primary's name with another suffix number.
C23_TemplateReplacesSuffix ==
    (pc # "new" /\ SplitSuffix(image_fname)) =>
        LET t == make_list_template(image_fname)
        IN /\ t.pre = SubSeq(image_fname, 1, Len(image_fname) - 3)
           /\ t.post = <<>>
           /\ t.start = SuffixValue(image_fname) + 1
           /\ pc = "probing" =>
                 probename(t, num) = SuffixName(image_fname, num)

(***************************************************************************)
(* scan_hashdb (src/scan_hashdb.cpp): PHASE_INIT validates the             *)
(* configuration, PHASE_SCAN runs do_import or do_scan on a page.  hashdb  *)
(* holds the configuration (mode, hashdb_block_size, the two sector sizes, *)
(* hashdb_ignore_empty_blocks), the page (sbuf.pagesize, sbuf.bufsize),    *)
(* and the locals of the block loop: count, i, and the offsets given to    *)
(* hash_buf.  pc is "new", "ready" after a valid PHASE_INIT, "exit" after  *)
(* exit(1), "counting" in the while loop, "hashing" in the for loop.       *)
(***************************************************************************)
\* largest hashdb_block_size, sector size, page size and margin of a page
MaxHashBlock == 4
MaxHashSector == 2
MaxHashPage == 5
MaxHashMargin == 1

\* the checks of PHASE_INIT that end in exit(1)
config_invalid(h) ==
    \/ h.block_size = 0
    \/ h.scan_sector_size = 0
    \/ (h.mode = "scan" /\ h.block_size % h.scan_sector_size # 0)
    \/ h.import_sector_size = 0
    \/ (h.mode = "import" /\ h.block_size % h.import_sector_size # 0)

\* the sector size do_import and do_scan step by
sector_size(h) ==
    IF h.mode = "import" THEN h.import_sector_size ELSE h.scan_sector_size

page_too_small_bug(sbuf_pagesize, block_size) == FALSE

\* there should be at least one block to process
page_too_small(sbuf_pagesize, block_size) == sbuf_pagesize < block_size

\* the condition of the while loop, in size_t arithmetic
count_too_large(count, sector, block_size, sbuf_pagesize) ==
    (((count * sector) % SizeMod) + ((block_size - sector) % SizeMod)) % SizeMod
        > sbuf_pagesize

phase_init ==
    /\ pc = "new"
    /\ hashdb.mode # "unset"
    /\ pc' = IF config_invalid(hashdb) THEN "exit" ELSE "ready"
    /\ ret' = [op |-> "PHASE_INIT"]
    /\ UNCHANGED <<num, fsvars, cfgvars, imgvars, it>>

\* PHASE_SCAN up to the computation of count
phase_scan(sbuf_pagesize, sbuf_bufsize) ==
    /\ pc = "ready"
    /\ hashdb.mode # "unset"
    /\ IF hashdb.mode = "none" \/ page_too_small(sbuf_pagesize, hashdb.block_size)
       THEN /\ ret' = [op |-> "PHASE_SCAN", result |-> "no action"]
            /\ UNCHANGED <<pc, hashdb>>
       ELSE /\ hashdb' = [hashdb EXCEPT !.pagesize = sbuf_pagesize,
                                        !.bufsize = sbuf_bufsize,
                                        !.count = sbuf_bufsize \div sector_size(hashdb),
                                        !.i = 0, !.hashed = <<>>]
            /\ pc' = "counting"
            /\ ret' = [op |-> "PHASE_SCAN", result |-> "running"]
    /\ UNCHANGED <<num, image_fname, fs, world, calls, out, cfgvars, imgvars, it>>

\* one test of the while loop, with --count when it holds
count_step ==
    /\ pc = "counting"
    /\ IF count_too_large(hashdb.count, sector_size(hashdb), hashdb.block_size,
                          hashdb.pagesize)
       THEN /\ hashdb' = [hashdb EXCEPT !.count = (hashdb.count - 1) % SizeMod]
            /\ UNCHANGED pc
       ELSE /\ pc' = "hashing"
            /\ UNCHANGED hashdb
    /\ ret' = [op |-> "PHASE_SCAN", result |-> "running"]
    /\ UNCHANGED <<num, image_fname, fs, world, calls, out, cfgvars, imgvars, it>>

\* one test of the for loop, with its body when it holds; empty is what
\* is_empty_block finds
hash_step(empty) ==
    /\ pc = "hashing"
    /\ IF hashdb.i < hashdb.count
       THEN LET offset == (hashdb.i * sector_size(hashdb)) % SizeMod
                skipped == hashdb.mode = "scan" /\ hashdb.ignore_empty_blocks /\ empty
            IN /\ hashdb' = [hashdb EXCEPT
                                !.i = hashdb.i + 1,
                                !.hashed = IF skipped THEN hashdb.hashed
                                           ELSE Append(hashdb.hashed, offset)]
               /\ ret' = [op |-> "PHASE_SCAN", result |-> "running"]
               /\ UNCHANGED pc
       ELSE /\ pc' = "ready"
            /\ ret' = [op |-> "PHASE_SCAN", result |-> "done"]
            /\ UNCHANGED hashdb
    /\ UNCHANGED <<num, image_fname, fs, world, calls, out, cfgvars, imgvars, it>>

InitHashdb ==
    /\ pc = "new"
    /\ image_fname = <<>>
    /\ fs = <<>>
    /\ num = 0
    /\ backend = "none"
    /\ ewf_api = "handle"
    /\ pagesize = 1
    /\ margin = 0
    /\ file_list = <<>>
    /\ raw_filesize = 0
    /\ ewf_filesize = 0
    /\ files = <<>>
    /\ it = <<>>
    /\ ret = NoRet
    /\ world = NoWorld
    /\ calls = NoCalls
    /\ out = <<>>
    /\ \E m \in {"none", "import", "scan"}, b \in 0..MaxHashBlock,
          ss \in 0..MaxHashSector, is \in 0..MaxHashSector, e \in BOOLEAN :
          hashdb = [mode |-> m, block_size |-> b, scan_sector_size |-> ss,
                    import_sector_size |-> is, ignore_empty_blocks |-> e,
                    pagesize |-> 0, bufsize |-> 0, count |-> 0, i |-> 0,
                    hashed |-> <<>>]

NextHashdb ==
    \/ phase_init
    \/ \E p \in 0..MaxHashPage, m \in 0..MaxHashMargin : phase_scan(p, p + m)
    \/ count_step
    \/ \E empty \in BOOLEAN : hash_step(empty)

SpecHashdb ==
    /\ InitHashdb
    /\ [][NextHashdb]_vars
    /\ WF_vars(count_step)
    /\ WF_vars(\E empty \in BOOLEAN : hash_step(empty))

InBlockLoop == pc \in {"counting", "hashing"}

\* C24: in do_scan and do_import, for a page with pagesize >= hashdb_block_size
\* under a validated configuration, the block-count loop ends and the for loop
\* after it ends; count is never decremented at zero; and every block examined
\* or hashed starts at a multiple of the sector size and lies inside the
\* page's usable length: offset + hashdb_block_size <= pagesize.
C24_BlockLoop ==
    /\ InBlockLoop ~> (pc = "ready")
    /\ [][(pc = "counting" /\ hashdb'.count # hashdb.count) =>
             (hashdb.count > 0 /\ hashdb'.count = hashdb.count - 1)]_vars
    /\ [](pc = "hashing" =>
             /\ \A j \in 0..(hashdb.i - 1) :
                   j * sector_size(hashdb) + hashdb.block_size <= hashdb.pagesize
             /\ \A k \in 1..Len(hashdb.hashed) :
                   /\ hashdb.hashed[k] % sector_size(hashdb) = 0
                   /\ hashdb.hashed[k] + hashdb.block_size <= hashdb.pagesize)

\* a page whose count was decremented in the while loop and of which at
\* least two blocks were hashed, the last one ending at the page's end
C24_Witness ==
    /\ pc = "ready"
    /\ ret = [op |-> "PHASE_SCAN", result |-> "done"]
    /\ hashdb.count < hashdb.bufsize \div sector_size(hashdb)
    /\ Len(hashdb.hashed) >= 2
    /\ hashdb.hashed[Len(hashdb.hashed)] + hashdb.block_size = hashdb.pagesize
    /\ hashdb.block_size > sector_size(hashdb)
====
